---- MODULE Spec2Model ----
(***************************************************************************)
(* The frame pipeline of puppeteer-screen-recorder: PageVideoStreamWriter  *)
(* (the ordered, self-draining frame buffer, the duration computation and  *)
(* the encoder feed).                                                      *)
(*                                                                         *)
(* Time is counted in ticks, TicksPerSecond ticks to the second; a         *)
(* timestamp or a duration of the source (a float, in seconds) is a whole  *)
(* number of ticks here.                                                   *)
(***************************************************************************)
EXTENDS Integers, Sequences, FiniteSets, Bags, TLC

\* ---------------------------------------------------------------- bounds

\* frames that arrive in order have timestamps in 1..MaxOrderedTime: more
\* values than the buffer holds frames, so that it half-drains
MaxOrderedTime == 6

\* number of popup pages the recorded page may open
MaxPopups == 3
\* timestamps are drawn from 1..MaxTime, stop times from 0..MaxTime + 1
MaxTime == 3
\* at most MaxPending insert() calls are suspended in their image step at once
MaxPending == 2
\* The capacity of the buffer.  The source fixes _screenLimit = 40
\* (src/unnamed/part_000:205); the model runs the same code with the capacity
\* scaled down to ScreenLimit, so that the buffer fills up and half-drains
\* within the runs explored.  No formula below depends on its value.
ScreenLimit == 4
\* the resolution of the clock: ticks to the second
TicksPerSecond == 2
\* insert() is called at most MaxInserts times in a run: enough to fill the
\* buffer, half-drain it once and insert one more frame
MaxInserts == ScreenLimit + 2
\* the capture source delivers at most MaxFrameEvents 'Page.screencastFrame'
\* events in a run of the recorder
MaxFrameEvents == 2
\* fps of defaultPuppeteerScreenRecorderOptions
defaultFps == 25

\* ----------------------------------------------------------------- state

VARIABLES
  fps,               \* _options.fps
  screenCastFrames,  \* _screenCastFrames: the buffer, a sequence of frames
  status,            \* _status
  streamEnds,        \* number of end() calls made on _videoMediatorStream
  writesAfterEnd,    \* number of write() calls that wrote to the stream after its end()
  pending,           \* the frames of the insert() calls suspended at
                     \* `await _createPageScreenFrame`, in the order of the calls
  nInsertCalls,      \* history: number of insert() calls made
  stopped,           \* history: stop() has been called
  nDrainAll,         \* history: number of _drainFrames() calls
  nWrites,           \* history: number of write() calls
  lastBatch,         \* history: the write() calls of the latest drain, in order
  lastBatchKind,     \* history: "none", "half" (insert's drain) or "all" (stop's)
  lastBatchEnd,      \* history: the chunckEndTime of the latest drain
  reordered,         \* history: a frame was inserted in front of a buffered frame
  overtook,          \* history: an insert() completed before one called earlier
  lastWritten,       \* history: timestamp of the latest write() call, -1 if none
  maxWritten,        \* history: largest timestamp passed to write(), -1 if none
  orderBroken,       \* history: a write() call had a smaller timestamp than the one before
  lateInsert,        \* history: a frame older than one already written was inserted
  insertedBeforeStop,\* history: bag of the frames whose insert completed before the first stop()
  writtenByStop      \* history: bag of the frames written until the first stop() returned

VARIABLES
  nRejected          \* number of insert() calls whose _createPageScreenFrame rejected

\* the fields of PageVideoStreamWriter and the history of its calls
writerVars == <<fps, screenCastFrames, status, streamEnds, writesAfterEnd, pending,
                nInsertCalls, stopped, nDrainAll, nWrites, lastBatch, lastBatchKind,
                lastBatchEnd, reordered, overtook, lastWritten, maxWritten, orderBroken,
                lateInsert, insertedBeforeStop, writtenByStop, nRejected>>

VARIABLES
  destination,          \* the constructor's destinationSource: "file" or "stream"
  encoder,              \* the ffmpeg command: "running", or its one final event
  encoderError,         \* message of the encoder's 'error' event, _status and the
                        \* number of write() calls at that moment
  writerPromise,        \* _writerPromise: "pending", "true" or "false"
  nWriterErrors,        \* number of 'videoStreamWriterError' events emitted
  errorLogged,          \* _handleWriteStreamError reached its console.error
  userStreamErrors,     \* number of 'error' events emitted on the caller's stream
  isScreenCaptureEnded, \* PuppeteerScreenRecorder._isScreenCaptureEnded
  pc,                   \* position of each PuppeteerScreenRecorder.stop() call
  isStreamingEnded,     \* pageVideoStreamCollector._isStreamingEnded
  hasSession,           \* _sessionsStack holds the page's session
  sessionAttached,      \* that session has not been detached
  frameAckReceived,     \* the promise _isFrameAckReceived is resolved
  nFrameEvents,         \* number of 'Page.screencastFrame' events handled
  nAcks                 \* number of 'Page.screencastFrameAck' commands sent

VARIABLES
  recorderState,        \* "constructed", then "started", or "failed" when
                        \* start() or startStream() threw
  configFault,          \* what is wrong with the configuration start() was given
  listenersSet          \* _setupListeners() has run

\* the progress of PuppeteerScreenRecorder.start() / startStream()
startVars == <<recorderState, configFault, listenersSet>>

\* the recorder, the collector and the encoder binding around the writer
recorderVars == <<destination, encoder, encoderError, writerPromise, nWriterErrors,
                  errorLogged, userStreamErrors, isScreenCaptureEnded, pc,
                  isStreamingEnded, hasSession, sessionAttached, frameAckReceived,
                  nFrameEvents, nAcks>>

VARIABLES
  nWaits,               \* number of collector.stop() calls that entered the
                        \* Promise.race with the 1-second timer
  nDetachCalls,         \* number of detach() calls made on the page's session
  result,               \* what each PuppeteerScreenRecorder.stop() call resolved to
  lastEventStamped,     \* the last 'Page.screencastFrame' event had a timestamp
  nEmitted,             \* number of 'pageScreenFrame' events emitted
  emittedWaiting,       \* one was emitted while a collector.stop() was in its wait
  droppedEnded          \* a frame event was dropped for _isStreamingEnded

\* the history of the stop() calls and of the frame events
historyVars == <<nWaits, nDetachCalls, result, lastEventStamped, nEmitted,
                 emittedWaiting, droppedEnded>>

VARIABLES
  sumDurations          \* the sum of the durations passed to write(), in ticks,
                        \* kept in the runs where the frames arrive in order

\* the measure of the recording written
tileVars == <<sumDurations>>

VARIABLES
  collectorState,       \* "constructed" until pageVideoStreamCollector.start()
  pageState,            \* of each page: "unopened", "open" or "closed"
  sessionsStack,        \* _sessionsStack: each CDP session named by its page
  closeListeners,       \* the pages carrying the once('close') listener
  popupListener,        \* the 'popup' listener is on the recorded page
  lastClosed,           \* the page of the last 'close' event (none: {})
  lastRemoved           \* the session that close removed from the stack (none: {})

\* the collector's pages and sessions
tabVars == <<collectorState, pageState, sessionsStack, closeListeners,
             popupListener, lastClosed, lastRemoved>>

vars == <<writerVars, recorderVars, startVars, historyVars, tileVars, tabVars>>

\* ------------------------------------------------------------ input sets

\* the page given to the recorder, and the pages it may open as popups
MainPage == 0

Popups == 1..MaxPopups

Pages == {MainPage} \cup Popups

\* the collector as constructed: no session, no listener, the page open
TabsIdle ==
  /\ collectorState = "constructed"
  /\ pageState = [page \in Pages |-> IF page = MainPage THEN "open" ELSE "unopened"]
  /\ sessionsStack = <<>>
  /\ closeListeners = {}
  /\ popupListener = FALSE
  /\ lastClosed = {}
  /\ lastRemoved = {}

\* metadata.timestamp of a frame: the collector drops a frame whose timestamp
\* is 0 or missing
Timestamps == 1..MaxTime
\* stoppedTime: before, between and after the timestamps
StopTimes == 0..(MaxTime + 1)
\* the images the capture source delivers
Blobs == {"img"}

\* timestamps of frames that arrive in order, and the stop times after them
OrderedTimestamps == 1..MaxOrderedTime
OrderedStopTimes == 1..(MaxOrderedTime + 1)

\* two different images, to tell frames of one timestamp apart, and two
\* timestamps for them
TieBlobs == {"img", "img2"}
TieTimestamps == {1, 2}

\* metadata.timestamp of a 'Page.screencastFrame' event; 0 stands for an event
\* without a timestamp
EventTimestamps == {0} \cup Timestamps

\* message of the encoder's 'error' event: 'pipe:0: End of file' or another
EndOfFile == "pipe:0: End of file"
OtherError == "other"
Messages == {EndOfFile, OtherError}

\* destinationSource: a file path or a writable stream
Destinations == {"file", "stream"}

\* what can be wrong with the configuration: the extension of the file path
\* is not a supported format, the stream is not writable, no ffmpeg path
NoFault == "none"
FaultsOf(dest) ==
  IF dest = "file" THEN {NoFault, "format", "ffmpegPath"}
  ELSE {NoFault, "notWritable", "ffmpegPath"}

\* the calls of PuppeteerScreenRecorder.stop(): one by the application, one by
\* the listener of 'videoStreamWriterError'
AppCallers == {"app"}
Callers == AppCallers \cup {"error"}

\* Date.now() / 1000 when the recorder calls stop() of the writer: the clock
\* that stamps the frames has then passed every timestamp it has given out
Now == MaxTime + 1

\* values of the fps option other than the default
FpsValues == {1, 2, 3}

\* VIDEO_WRITE_STATUS
NOT_STARTED == "NOT_STARTED"
IN_PROGRESS == "IN_PROGRESS"
COMPLETED == "COMPLETED"

\* ------------------------------------------------------- pure functions

\* Math.floor(n / d) for d > 0
Floor(n, d) == n \div d

Max(a, b) == IF a >= b THEN a ELSE b

\* the loop of _findSlot: i runs from the last index down while
\* timestamp <= frames[i].timestamp; the result is i + 1 (0-based), which is
\* the number of frames in front of the slot
RECURSIVE findSlotLoop(_, _, _)
findSlotLoop(frames, timestamp, i) ==
  IF i < 1 THEN 0
  ELSE IF timestamp > frames[i].timestamp THEN i
  ELSE findSlotLoop(frames, timestamp, i - 1)

\* mutant of findSlot: the frame always goes to the tail (push)
findSlot_Push(frames, timestamp) == Len(frames)

findSlot(frames, timestamp) ==
  IF Len(frames) = 0 THEN 0 ELSE findSlotLoop(frames, timestamp, Len(frames))

\* mutant of insertAt: splice(index, 1, frame), which overwrites a frame
insertAt_Overwrite(frames, index, frame) ==
  SubSeq(frames, 1, index) \o <<frame>> \o SubSeq(frames, index + 2, Len(frames))

\* frames.splice(index, 0, frame), and frames.push(frame) when index = length
insertAt(frames, index, frame) ==
  SubSeq(frames, 1, index) \o <<frame>> \o SubSeq(frames, index + 1, Len(frames))

\* mutant of trimFrame: every duration runs to the end of the chunk
trimFrame_ToChunkEnd(fameList, chunckEndTime) ==
  [index \in 1..Len(fameList) |->
    [timestamp |-> fameList[index].timestamp,
     blob |-> fameList[index].blob,
     duration |-> chunckEndTime - fameList[index].timestamp]]

\* _trimFrame: each frame with its duration
trimFrame(fameList, chunckEndTime) ==
  [index \in 1..Len(fameList) |->
    LET endTime == IF index # Len(fameList)
                   THEN fameList[index + 1].timestamp
                   ELSE chunckEndTime
    IN  [timestamp |-> fameList[index].timestamp,
         blob |-> fameList[index].blob,
         duration |-> endTime - fameList[index].timestamp]]

\* Math.round(n / d) for d > 0: the nearest whole number, a half going up
Round(n, d) == (2 * n + d) \div (2 * d)

\* mutant of numberOfFps: the repetitions are rounded, not floored
numberOfFps_Round(durationTicks, framesPerSecond) ==
  Max(Round(durationTicks * framesPerSecond, TicksPerSecond), 1)

\* mutant of numberOfFps: no lower limit of one repetition
numberOfFps_NoMin(durationTicks, framesPerSecond) ==
  Floor(durationTicks * framesPerSecond, TicksPerSecond)

\* NUMBER_OF_FPS of write(): Math.max(Math.floor(durationSeconds * fps), 1)
numberOfFps(durationTicks, framesPerSecond) ==
  Max(Floor(durationTicks * framesPerSecond, TicksPerSecond), 1)

\* what write() reads and changes, as a record: the writer's fields and the
\* history of the calls
writerState ==
  [status |-> status, streamEnds |-> streamEnds, writesAfterEnd |-> writesAfterEnd,
   nWrites |-> nWrites, batch |-> <<>>, lastWritten |-> lastWritten,
   maxWritten |-> maxWritten, orderBroken |-> orderBroken]

\* write(data, durationSeconds) on w, for a frame of _trimFrame
write(w, frame) ==
  LET NUMBER_OF_FPS == numberOfFps(frame.duration, fps)
  IN  [w EXCEPT
        !.status = IN_PROGRESS,
        !.writesAfterEnd = IF w.streamEnds = 0 THEN @ ELSE @ + 1,
        !.nWrites = @ + 1,
        !.batch = Append(@, [timestamp |-> frame.timestamp, blob |-> frame.blob,
                             duration |-> frame.duration, reps |-> NUMBER_OF_FPS]),
        !.lastWritten = frame.timestamp,
        !.maxWritten = Max(@, frame.timestamp),
        !.orderBroken = (@ \/ frame.timestamp < w.lastWritten)]

\* processedFrames.forEach(({blob, duration}) => this.write(blob, duration))
RECURSIVE writeAll(_, _, _)
writeAll(w, processedFrames, i) ==
  IF i > Len(processedFrames) THEN w
  ELSE writeAll(write(w, processedFrames[i]), processedFrames, i + 1)

\* _processFrameBeforeWrite
processFrameBeforeWrite(w, frames, chunckEndTime) ==
  writeAll(w, trimFrame(frames, chunckEndTime), 1)

\* mutant of isFull: the drain starts one frame too late
isFull_Late(frames) == Len(frames) > ScreenLimit

\* `this._screenCastFrames.length === this._screenLimit` of insert()
isFull(frames) == Len(frames) = ScreenLimit

\* mutant of numberOfFramesToSplice: one frame more than half
numberOfFramesToSplice_OneMore == Floor(ScreenLimit, 2) + 1

\* numberOfFramesToSplice of insert()
numberOfFramesToSplice == Floor(ScreenLimit, 2)

\* the bag of the frames of a sequence of frames or of write() calls
RECURSIVE framesOf(_)
framesOf(list) ==
  IF Len(list) = 0 THEN EmptyBag
  ELSE SetToBag({[timestamp |-> Head(list).timestamp, blob |-> Head(list).blob]})
       (+) framesOf(Tail(list))

\* --------------------------------------------------------------- actions

NoEncoderError == [message |-> "none", status |-> NOT_STARTED, nWrites |-> 0]

\* the writer constructed on a file path and driven directly by its caller:
\* no recorder, no collector, and an encoder that stays silent
WriterAlone ==
  /\ destination = "file"
  /\ encoder = "running"
  /\ encoderError = NoEncoderError
  /\ writerPromise = "pending"
  /\ nWriterErrors = 0
  /\ errorLogged = FALSE
  /\ userStreamErrors = 0
  /\ isScreenCaptureEnded = "null"
  /\ pc = [c \in Callers |-> "idle"]
  /\ isStreamingEnded = FALSE
  /\ hasSession = FALSE
  /\ sessionAttached = FALSE
  /\ frameAckReceived = FALSE
  /\ nFrameEvents = 0
  /\ nAcks = 0
  /\ recorderState = "constructed"
  /\ configFault = NoFault
  /\ listenersSet = FALSE
  /\ nWaits = 0
  /\ nDetachCalls = 0
  /\ result = [c \in Callers |-> "none"]
  /\ lastEventStamped = FALSE
  /\ nEmitted = 0
  /\ emittedWaiting = FALSE
  /\ droppedEnded = FALSE
  /\ sumDurations = 0
  /\ TabsIdle

Init ==
  /\ fps = defaultFps
  /\ screenCastFrames = <<>>
  /\ status = NOT_STARTED
  /\ streamEnds = 0
  /\ writesAfterEnd = 0
  /\ pending = <<>>
  /\ nInsertCalls = 0
  /\ stopped = FALSE
  /\ nDrainAll = 0
  /\ nWrites = 0
  /\ lastBatch = <<>>
  /\ lastBatchKind = "none"
  /\ lastBatchEnd = -1
  /\ reordered = FALSE
  /\ overtook = FALSE
  /\ lastWritten = -1
  /\ maxWritten = -1
  /\ orderBroken = FALSE
  /\ lateInsert = FALSE
  /\ insertedBeforeStop = EmptyBag
  /\ writtenByStop = EmptyBag
  /\ nRejected = 0
  /\ WriterAlone

\* insert({data, metadata}) up to its await: the image step is started
InsertCall(timestamp, blob) ==
  /\ nInsertCalls < MaxInserts
  /\ Len(pending) < MaxPending
  /\ nInsertCalls' = nInsertCalls + 1
  /\ pending' = Append(pending, [timestamp |-> timestamp, blob |-> blob])
  /\ UNCHANGED <<fps, screenCastFrames, status, streamEnds, writesAfterEnd, stopped,
                 nDrainAll, nWrites, lastBatch, lastBatchKind, lastBatchEnd,
                 reordered, overtook, lastWritten, maxWritten, orderBroken,
                 lateInsert, insertedBeforeStop, writtenByStop, nRejected>>

\* insert() from the completion of _createPageScreenFrame to its end, for the
\* k-th of the suspended calls
InsertResume(k) ==
  /\ k \in 1..Len(pending)
  /\ pending' = SubSeq(pending, 1, k - 1) \o SubSeq(pending, k + 1, Len(pending))
  /\ overtook' = (overtook \/ k > 1)
  /\ LET frame == pending[k]
         full == isFull(screenCastFrames)
         framesToProcess ==
           IF full THEN SubSeq(screenCastFrames, 1, numberOfFramesToSplice) ELSE <<>>
         rest ==
           IF full
           THEN SubSeq(screenCastFrames, numberOfFramesToSplice + 1, Len(screenCastFrames))
           ELSE screenCastFrames
         w == IF full
              THEN processFrameBeforeWrite(writerState, framesToProcess, rest[1].timestamp)
              ELSE writerState
         insertionIndex == findSlot(rest, frame.timestamp)
     IN  /\ screenCastFrames' = insertAt(rest, insertionIndex, frame)
         /\ status' = w.status
         /\ writesAfterEnd' = w.writesAfterEnd
         /\ nWrites' = w.nWrites
         /\ lastBatch' = IF full THEN w.batch ELSE lastBatch
         /\ lastBatchKind' = IF full THEN "half" ELSE lastBatchKind
         /\ lastBatchEnd' = IF full THEN rest[1].timestamp ELSE lastBatchEnd
         /\ lastWritten' = w.lastWritten
         /\ maxWritten' = w.maxWritten
         /\ orderBroken' = w.orderBroken
         /\ reordered' = (reordered \/ insertionIndex < Len(rest))
         /\ lateInsert' = (lateInsert \/ frame.timestamp < w.maxWritten)
         /\ writtenByStop' =
              IF stopped THEN writtenByStop ELSE writtenByStop (+) framesOf(w.batch)
         /\ insertedBeforeStop' =
              IF stopped THEN insertedBeforeStop
              ELSE insertedBeforeStop (+) SetToBag({frame})
  /\ UNCHANGED <<fps, streamEnds, nInsertCalls, stopped, nDrainAll, nRejected>>

\* mutant of InsertReject: the frame of the failed call is still put in the buffer
InsertReject_Push(k) ==
  /\ k \in 1..Len(pending)
  /\ pending' = SubSeq(pending, 1, k - 1) \o SubSeq(pending, k + 1, Len(pending))
  /\ nRejected' = nRejected + 1
  /\ screenCastFrames' = Append(screenCastFrames, pending[k])
  /\ UNCHANGED <<fps, status, streamEnds, writesAfterEnd, nInsertCalls,
                 stopped, nDrainAll, nWrites, lastBatch, lastBatchKind, lastBatchEnd,
                 reordered, overtook, lastWritten, maxWritten, orderBroken,
                 lateInsert, insertedBeforeStop, writtenByStop>>

\* insert() when the awaited _createPageScreenFrame rejects (the image step of
\* saveFrameSize fails), for the k-th of the suspended calls: insert() rejects
\* at its first line and runs none of the rest
InsertReject(k) ==
  /\ k \in 1..Len(pending)
  /\ pending' = SubSeq(pending, 1, k - 1) \o SubSeq(pending, k + 1, Len(pending))
  /\ nRejected' = nRejected + 1
  /\ UNCHANGED <<fps, screenCastFrames, status, streamEnds, writesAfterEnd, nInsertCalls,
                 stopped, nDrainAll, nWrites, lastBatch, lastBatchKind, lastBatchEnd,
                 reordered, overtook, lastWritten, maxWritten, orderBroken,
                 lateInsert, insertedBeforeStop, writtenByStop>>

\* stop(stoppedTime)
Stop(stoppedTime) ==
  /\ stopped' = TRUE
  /\ IF status = COMPLETED
     THEN UNCHANGED <<screenCastFrames, status, streamEnds, writesAfterEnd, nDrainAll,
                      nWrites, lastBatch, lastBatchKind, lastBatchEnd, lastWritten,
                      maxWritten, orderBroken, writtenByStop>>
     ELSE LET w == processFrameBeforeWrite(writerState, screenCastFrames, stoppedTime)
          IN  /\ screenCastFrames' = <<>>
              /\ writesAfterEnd' = w.writesAfterEnd
              /\ streamEnds' = streamEnds + 1
              /\ status' = COMPLETED
              /\ nDrainAll' = nDrainAll + 1
              /\ nWrites' = w.nWrites
              /\ lastBatch' = w.batch
              /\ lastBatchKind' = "all"
              /\ lastBatchEnd' = stoppedTime
              /\ lastWritten' = w.lastWritten
              /\ maxWritten' = w.maxWritten
              /\ orderBroken' = w.orderBroken
              /\ writtenByStop' =
                   IF stopped THEN writtenByStop ELSE writtenByStop (+) framesOf(w.batch)
  /\ UNCHANGED <<fps, pending, nInsertCalls, reordered, overtook, lateInsert,
                 insertedBeforeStop, nRejected>>

Next ==
  \/ \E timestamp \in Timestamps, blob \in Blobs :
       InsertCall(timestamp, blob) /\ UNCHANGED <<recorderVars, startVars, historyVars, tileVars, tabVars>>
  \/ \E k \in 1..MaxPending : InsertResume(k) /\ UNCHANGED <<recorderVars, startVars, historyVars, tileVars, tabVars>>
  \/ \E stoppedTime \in StopTimes : Stop(stoppedTime) /\ UNCHANGED <<recorderVars, startVars, historyVars, tileVars, tabVars>>

Spec == Init /\ [][Next]_vars

\* the writer constructed with another fps option
InitFps ==
  /\ fps \in FpsValues
  /\ screenCastFrames = <<>>
  /\ status = NOT_STARTED
  /\ streamEnds = 0
  /\ writesAfterEnd = 0
  /\ pending = <<>>
  /\ nInsertCalls = 0
  /\ stopped = FALSE
  /\ nDrainAll = 0
  /\ nWrites = 0
  /\ lastBatch = <<>>
  /\ lastBatchKind = "none"
  /\ lastBatchEnd = -1
  /\ reordered = FALSE
  /\ overtook = FALSE
  /\ lastWritten = -1
  /\ maxWritten = -1
  /\ orderBroken = FALSE
  /\ lateInsert = FALSE
  /\ insertedBeforeStop = EmptyBag
  /\ writtenByStop = EmptyBag
  /\ nRejected = 0
  /\ WriterAlone

SpecFps == InitFps /\ [][Next]_vars

\* the writer with saveFrameSize, where the image step of an insert() can fail
NextReject ==
  \/ \E timestamp \in Timestamps, blob \in Blobs :
       InsertCall(timestamp, blob) /\ UNCHANGED <<recorderVars, startVars, historyVars, tileVars, tabVars>>
  \/ \E k \in 1..MaxPending : InsertResume(k) /\ UNCHANGED <<recorderVars, startVars, historyVars, tileVars, tabVars>>
  \/ \E k \in 1..MaxPending : InsertReject(k) /\ UNCHANGED <<recorderVars, startVars, historyVars, tileVars, tabVars>>
  \/ \E stoppedTime \in StopTimes : Stop(stoppedTime) /\ UNCHANGED <<recorderVars, startVars, historyVars, tileVars, tabVars>>

SpecReject == Init /\ [][NextReject]_vars

\* the writer fed with two different images
NextTies ==
  \/ \E timestamp \in TieTimestamps, blob \in TieBlobs :
       InsertCall(timestamp, blob) /\ UNCHANGED <<recorderVars, startVars, historyVars, tileVars, tabVars>>
  \/ \E k \in 1..MaxPending : InsertResume(k) /\ UNCHANGED <<recorderVars, startVars, historyVars, tileVars, tabVars>>
  \/ \E stoppedTime \in StopTimes : Stop(stoppedTime) /\ UNCHANGED <<recorderVars, startVars, historyVars, tileVars, tabVars>>

SpecTies == Init /\ [][NextTies]_vars

\* the greatest timestamp insert() has been called with so far
LatestTimestamp ==
  LET given == {pending[i].timestamp : i \in 1..Len(pending)}
                 \cup {screenCastFrames[i].timestamp : i \in 1..Len(screenCastFrames)}
                 \cup {maxWritten}
  IN  CHOOSE t \in given : \A u \in given : u <= t

\* the sum of the durations of a batch of write() calls
RECURSIVE batchDuration(_)
batchDuration(batch) ==
  IF Len(batch) = 0 THEN 0 ELSE Head(batch).duration + batchDuration(Tail(batch))

\* insert() called with a timestamp greater than every earlier one
InsertCallOrdered(timestamp) ==
  /\ timestamp > LatestTimestamp
  /\ InsertCall(timestamp, "img")
  /\ UNCHANGED sumDurations

\* insert() after its await, for the k-th of the suspended calls: the calls
\* were made in timestamp order and complete in any order
InsertResumeOrdered(k) ==
  /\ InsertResume(k)
  /\ sumDurations' =
       IF isFull(screenCastFrames) THEN sumDurations + batchDuration(lastBatch')
       ELSE sumDurations

\* stop(stoppedTime) with a stoppedTime that is at least the last timestamp
StopOrdered(stoppedTime) ==
  /\ stoppedTime >= LatestTimestamp
  /\ Stop(stoppedTime)
  /\ sumDurations' =
       IF status # COMPLETED THEN sumDurations + batchDuration(lastBatch')
       ELSE sumDurations

\* the writer fed with frames in strictly increasing timestamp order
NextOrdered ==
  \/ \E timestamp \in OrderedTimestamps :
       InsertCallOrdered(timestamp) /\ UNCHANGED <<recorderVars, startVars, historyVars, tabVars>>
  \/ \E k \in 1..MaxPending :
       InsertResumeOrdered(k) /\ UNCHANGED <<recorderVars, startVars, historyVars, tabVars>>
  \/ \E stoppedTime \in OrderedStopTimes :
       StopOrdered(stoppedTime) /\ UNCHANGED <<recorderVars, startVars, historyVars, tabVars>>

SpecOrdered == Init /\ [][NextOrdered]_vars

\* ------------------------------- the recorder, the collector, the encoder

\* _handleWriteStreamError(errorMessage): the event is emitted first; the test
\* on _status and the message only decides whether console.error is reached
handleWriteStreamError(currentStatus, errorMessage) ==
  [emitted |-> TRUE,
   logged |-> ~(currentStatus # IN_PROGRESS /\ errorMessage = EndOfFile)]

\* PuppeteerScreenRecorder.stop() up to its first await, collector.stop() up to
\* its first await included: where the call is suspended, or that it returned
recorderStopEntry ==
  IF isScreenCaptureEnded # "null" THEN "returned"
  ELSE IF isStreamingEnded THEN "toWriter"
  ELSE "race"

\* what a stop() call returns at once: the value it finds in
\* _isScreenCaptureEnded, or nothing yet
recorderStopResult ==
  IF isScreenCaptureEnded # "null" THEN isScreenCaptureEnded ELSE "none"

\* a call of 'Page.screencastFrame' is dropped, neither acknowledged nor
\* emitted: `!metadata.timestamp || this._isStreamingEnded`
\* mutant of frameDropped: _isStreamingEnded is not looked at
frameDropped_IgnoreEnd(timestamp, ended) == timestamp = 0

frameDropped(timestamp, ended) == timestamp = 0 \/ ended

\* some collector.stop() is in its Promise.race
Waiting == \E c \in Callers : pc[c] \in {"race", "raceTimedOut"}

\* mutant of raceSettled: collector.stop() waits for _isFrameAckReceived alone
raceSettled_NoTimeout(ackResolved, timerElapsed) == ackResolved

\* Promise.race([_isFrameAckReceived, the promise of setTimeout(resolve, 1000)])
raceSettled(ackResolved, timerElapsed) == ackResolved \/ timerElapsed

\* the recorder after start() or startStream(): the writer is constructed on
\* one of the two destinations, the listeners are set up, and the collector
\* has its session, or has none when createCDPSession failed
InitRec ==
  /\ fps = defaultFps
  /\ screenCastFrames = <<>>
  /\ status = NOT_STARTED
  /\ streamEnds = 0
  /\ writesAfterEnd = 0
  /\ pending = <<>>
  /\ nInsertCalls = 0
  /\ stopped = FALSE
  /\ nDrainAll = 0
  /\ nWrites = 0
  /\ lastBatch = <<>>
  /\ lastBatchKind = "none"
  /\ lastBatchEnd = -1
  /\ reordered = FALSE
  /\ overtook = FALSE
  /\ lastWritten = -1
  /\ maxWritten = -1
  /\ orderBroken = FALSE
  /\ lateInsert = FALSE
  /\ insertedBeforeStop = EmptyBag
  /\ writtenByStop = EmptyBag
  /\ nRejected = 0
  /\ destination \in Destinations
  /\ encoder = "running"
  /\ encoderError = NoEncoderError
  /\ writerPromise = "pending"
  /\ nWriterErrors = 0
  /\ errorLogged = FALSE
  /\ userStreamErrors = 0
  /\ isScreenCaptureEnded = "null"
  /\ pc = [c \in Callers |-> "idle"]
  /\ isStreamingEnded = FALSE
  /\ hasSession \in BOOLEAN
  /\ sessionAttached = hasSession
  /\ frameAckReceived = FALSE
  /\ nFrameEvents = 0
  /\ nAcks = 0
  /\ recorderState = "started"
  /\ configFault = NoFault
  /\ listenersSet = TRUE
  /\ nWaits = 0
  /\ nDetachCalls = 0
  /\ result = [c \in Callers |-> "none"]
  /\ lastEventStamped = FALSE
  /\ nEmitted = 0
  /\ emittedWaiting = FALSE
  /\ droppedEnded = FALSE
  /\ sumDurations = 0
  /\ TabsIdle

\* the listener of 'Page.screencastFrame' registered by _handleScreenCastFrame,
\* up to its await; the emit of 'pageScreenFrame' runs the recorder's listener,
\* which calls insert() of the writer
FrameEvent(timestamp) ==
  /\ sessionAttached
  /\ nFrameEvents < MaxFrameEvents
  /\ nFrameEvents' = nFrameEvents + 1
  /\ lastEventStamped' = (timestamp # 0)
  /\ IF frameDropped(timestamp, isStreamingEnded)
     THEN /\ frameAckReceived' = TRUE
          /\ droppedEnded' = (droppedEnded \/ isStreamingEnded)
          /\ UNCHANGED <<nAcks, nEmitted, emittedWaiting>>
          /\ UNCHANGED writerVars
     ELSE /\ nAcks' = nAcks + 1
          /\ nEmitted' = nEmitted + 1
          /\ emittedWaiting' = (emittedWaiting \/ Waiting)
          /\ InsertCall(timestamp, "img")
          /\ UNCHANGED <<frameAckReceived, droppedEnded>>
  /\ UNCHANGED <<destination, encoder, encoderError, writerPromise, nWriterErrors,
                 errorLogged, userStreamErrors, isScreenCaptureEnded, pc,
                 isStreamingEnded, hasSession, sessionAttached>>
  /\ UNCHANGED <<startVars, tileVars, tabVars, nWaits, nDetachCalls, result>>

\* the application calls PuppeteerScreenRecorder.stop()
RecorderStopCall(c) ==
  /\ recorderState = "started"
  /\ pc[c] = "idle"
  /\ pc' = [pc EXCEPT ![c] = recorderStopEntry]
  /\ result' = [result EXCEPT ![c] = recorderStopResult]
  /\ nWaits' = IF recorderStopEntry = "race" THEN nWaits + 1 ELSE nWaits
  /\ UNCHANGED writerVars
  /\ UNCHANGED <<destination, encoder, encoderError, writerPromise, nWriterErrors,
                 errorLogged, userStreamErrors, isScreenCaptureEnded,
                 isStreamingEnded, hasSession, sessionAttached, frameAckReceived,
                 nFrameEvents, nAcks>>
  /\ UNCHANGED <<startVars, tileVars, tabVars, nDetachCalls, lastEventStamped, nEmitted,
                 emittedWaiting, droppedEnded>>

\* the timer of collector.stop() fires: setTimeout(resolve, 1000)
Timeout(c) ==
  /\ pc[c] = "race"
  /\ pc' = [pc EXCEPT ![c] = "raceTimedOut"]
  /\ UNCHANGED writerVars
  /\ UNCHANGED <<destination, encoder, encoderError, writerPromise, nWriterErrors,
                 errorLogged, userStreamErrors, isScreenCaptureEnded,
                 isStreamingEnded, hasSession, sessionAttached, frameAckReceived,
                 nFrameEvents, nAcks>>
  /\ UNCHANGED <<startVars, tileVars, tabVars, historyVars>>

\* collector.stop() after its Promise.race: _isStreamingEnded is set and the
\* detach of the sessions is started; with no session it returns
RaceDone(c) ==
  /\ pc[c] \in {"race", "raceTimedOut"}
  /\ raceSettled(~hasSession \/ frameAckReceived, pc[c] = "raceTimedOut")
  /\ isStreamingEnded' = TRUE
  /\ nDetachCalls' = IF hasSession THEN nDetachCalls + 1 ELSE nDetachCalls
  /\ pc' = [pc EXCEPT ![c] = IF hasSession THEN "detach" ELSE "toWriter"]
  /\ UNCHANGED writerVars
  /\ UNCHANGED <<destination, encoder, encoderError, writerPromise, nWriterErrors,
                 errorLogged, userStreamErrors, isScreenCaptureEnded,
                 hasSession, sessionAttached, frameAckReceived, nFrameEvents, nAcks>>
  /\ UNCHANGED <<startVars, tileVars, tabVars, nWaits, result, lastEventStamped, nEmitted,
                 emittedWaiting, droppedEnded>>

\* collector.stop() after `await currentSession.detach()`: the session is
\* detached, or the rejection of a second detach is caught; it returns true
Detach(c) ==
  /\ pc[c] = "detach"
  /\ sessionAttached' = FALSE
  /\ pc' = [pc EXCEPT ![c] = "toWriter"]
  /\ UNCHANGED writerVars
  /\ UNCHANGED <<destination, encoder, encoderError, writerPromise, nWriterErrors,
                 errorLogged, userStreamErrors, isScreenCaptureEnded,
                 isStreamingEnded, hasSession, frameAckReceived, nFrameEvents, nAcks>>
  /\ UNCHANGED <<startVars, tileVars, tabVars, historyVars>>

\* PuppeteerScreenRecorder.stop() after `await this._streamReader.stop()`: it
\* calls stop() of the writer and awaits the promise that returns
WriterStop(c) ==
  /\ pc[c] = "toWriter"
  /\ Stop(Now)
  /\ pc' = [pc EXCEPT ![c] = "awaitWriter"]
  /\ UNCHANGED <<destination, encoder, encoderError, writerPromise, nWriterErrors,
                 errorLogged, userStreamErrors, isScreenCaptureEnded,
                 isStreamingEnded, hasSession, sessionAttached, frameAckReceived,
                 nFrameEvents, nAcks>>
  /\ UNCHANGED <<startVars, tileVars, tabVars, historyVars>>

\* PuppeteerScreenRecorder.stop() after `await this._streamWriter.stop()`
RecorderStopReturn(c) ==
  /\ pc[c] = "awaitWriter"
  /\ writerPromise # "pending"
  /\ isScreenCaptureEnded' = writerPromise
  /\ result' = [result EXCEPT ![c] = writerPromise]
  /\ pc' = [pc EXCEPT ![c] = "returned"]
  /\ UNCHANGED writerVars
  /\ UNCHANGED <<destination, encoder, encoderError, writerPromise, nWriterErrors,
                 errorLogged, userStreamErrors, isStreamingEnded, hasSession,
                 sessionAttached, frameAckReceived, nFrameEvents, nAcks>>
  /\ UNCHANGED <<startVars, tileVars, tabVars, nWaits, nDetachCalls, lastEventStamped, nEmitted,
                 emittedWaiting, droppedEnded>>

\* the 'error' event of the ffmpeg command, which is its one final event.
\* _configureVideoFile: _handleWriteStreamError, whose emit runs the recorder's
\* once-listener, that is stop() up to its first await; then resolve(false).
\* _configureVideoWritableStream: 'error' on the caller's stream; resolve(false).
EncoderErrorEvent(message) ==
  /\ encoder = "running"
  /\ encoder' = "error"
  /\ encoderError' = [message |-> message, status |-> status, nWrites |-> nWrites]
  /\ writerPromise' = IF writerPromise = "pending" THEN "false" ELSE writerPromise
  /\ IF destination = "file"
     THEN LET handled == handleWriteStreamError(status, message)
          IN  /\ nWriterErrors' = IF handled.emitted THEN nWriterErrors + 1 ELSE nWriterErrors
              /\ pc' = IF handled.emitted /\ pc["error"] = "idle"
                       THEN [pc EXCEPT !["error"] = recorderStopEntry]
                       ELSE pc
              /\ result' = IF handled.emitted /\ pc["error"] = "idle"
                           THEN [result EXCEPT !["error"] = recorderStopResult]
                           ELSE result
              /\ nWaits' = IF /\ handled.emitted
                              /\ pc["error"] = "idle"
                              /\ recorderStopEntry = "race"
                           THEN nWaits + 1
                           ELSE nWaits
              /\ errorLogged' = (errorLogged \/ handled.logged)
              /\ UNCHANGED userStreamErrors
     ELSE /\ userStreamErrors' = userStreamErrors + 1
          /\ UNCHANGED <<nWriterErrors, pc, errorLogged, result, nWaits>>
  /\ UNCHANGED writerVars
  /\ UNCHANGED <<destination, isScreenCaptureEnded, isStreamingEnded, hasSession,
                 sessionAttached, frameAckReceived, nFrameEvents, nAcks>>
  /\ UNCHANGED <<startVars, tileVars, tabVars, nDetachCalls, lastEventStamped, nEmitted,
                 emittedWaiting, droppedEnded>>

\* the 'end' event of the ffmpeg command: resolve(true)
EncoderEndEvent ==
  /\ encoder = "running"
  /\ encoder' = "end"
  /\ writerPromise' = IF writerPromise = "pending" THEN "true" ELSE writerPromise
  /\ UNCHANGED writerVars
  /\ UNCHANGED <<destination, encoderError, nWriterErrors, errorLogged,
                 userStreamErrors, isScreenCaptureEnded, pc, isStreamingEnded,
                 hasSession, sessionAttached, frameAckReceived, nFrameEvents, nAcks>>
  /\ UNCHANGED <<startVars, tileVars, tabVars, historyVars>>

\* mutant of constructorError: the file format is not checked
constructorError_NoFormat(dest, fault) ==
  IF dest = "stream" /\ fault = "notWritable" THEN "Output should be a writable stream"
  ELSE IF fault = "ffmpegPath" THEN "FFmpeg path is missing"
  ELSE "none"

\* the checks of the constructor of PageVideoStreamWriter, in its order:
\* _isWritableStream, _configureFFmPegPath, _configureVideoFile; the message
\* of the error thrown, or "none"
constructorError(dest, fault) ==
  IF dest = "stream" /\ fault = "notWritable" THEN "Output should be a writable stream"
  ELSE IF fault = "ffmpegPath" THEN "FFmpeg path is missing"
  ELSE IF dest = "file" /\ fault = "format" THEN "File format is not supported"
  ELSE "none"

\* the fields of a PageVideoStreamWriter as its constructor leaves them
InitWriter ==
  /\ fps = defaultFps
  /\ screenCastFrames = <<>>
  /\ status = NOT_STARTED
  /\ streamEnds = 0
  /\ writesAfterEnd = 0
  /\ pending = <<>>
  /\ nInsertCalls = 0
  /\ stopped = FALSE
  /\ nDrainAll = 0
  /\ nWrites = 0
  /\ lastBatch = <<>>
  /\ lastBatchKind = "none"
  /\ lastBatchEnd = -1
  /\ reordered = FALSE
  /\ overtook = FALSE
  /\ lastWritten = -1
  /\ maxWritten = -1
  /\ orderBroken = FALSE
  /\ lateInsert = FALSE
  /\ insertedBeforeStop = EmptyBag
  /\ writtenByStop = EmptyBag
  /\ nRejected = 0

\* the recorder after `new PuppeteerScreenRecorder(page, options)`: no writer
\* yet, no listener, no session
InitStart ==
  /\ InitWriter
  /\ destination = "none"
  /\ encoder = "none"
  /\ encoderError = NoEncoderError
  /\ writerPromise = "pending"
  /\ nWriterErrors = 0
  /\ errorLogged = FALSE
  /\ userStreamErrors = 0
  /\ isScreenCaptureEnded = "null"
  /\ pc = [c \in Callers |-> "idle"]
  /\ isStreamingEnded = FALSE
  /\ hasSession = FALSE
  /\ sessionAttached = FALSE
  /\ frameAckReceived = FALSE
  /\ nFrameEvents = 0
  /\ nAcks = 0
  /\ recorderState = "constructed"
  /\ configFault = NoFault
  /\ listenersSet = FALSE
  /\ nWaits = 0
  /\ nDetachCalls = 0
  /\ result = [c \in Callers |-> "none"]
  /\ lastEventStamped = FALSE
  /\ nEmitted = 0
  /\ emittedWaiting = FALSE
  /\ droppedEnded = FALSE
  /\ sumDurations = 0
  /\ TabsIdle

\* start(savePath) / startStream(stream): the writer is constructed, which
\* throws on a fault of the configuration; then _startStreamReader() sets up
\* the listeners and starts the collector, whose createCDPSession can fail
RecorderStart(dest, fault) ==
  /\ recorderState = "constructed"
  /\ configFault' = fault
  /\ IF constructorError(dest, fault) # "none"
     THEN /\ recorderState' = "failed"
          /\ UNCHANGED <<destination, encoder, listenersSet, hasSession, sessionAttached>>
     ELSE /\ recorderState' = "started"
          /\ destination' = dest
          /\ encoder' = "running"
          /\ listenersSet' = TRUE
          /\ hasSession' \in BOOLEAN
          /\ sessionAttached' = hasSession'
  /\ UNCHANGED writerVars
  /\ UNCHANGED <<encoderError, writerPromise, nWriterErrors, errorLogged,
                 userStreamErrors, isScreenCaptureEnded, pc, isStreamingEnded,
                 frameAckReceived, nFrameEvents, nAcks>>
  /\ UNCHANGED <<historyVars, tileVars, tabVars>>

\* the steps the event loop of Node.js takes by itself once a stop() call is
\* suspended: the timer, the continuations of the awaits
RecorderStopSteps ==
  \/ \E c \in Callers : Timeout(c)
  \/ \E c \in Callers : RaceDone(c)
  \/ \E c \in Callers : Detach(c)
  \/ \E c \in Callers : WriterStop(c)
  \/ \E c \in Callers : RecorderStopReturn(c)

NextRec ==
  \/ \E timestamp \in EventTimestamps : FrameEvent(timestamp)
  \/ \E k \in 1..MaxPending : InsertResume(k) /\ UNCHANGED <<recorderVars, startVars, historyVars, tileVars, tabVars>>
  \/ \E c \in AppCallers : RecorderStopCall(c)
  \/ \E c \in Callers : Timeout(c)
  \/ \E c \in Callers : RaceDone(c)
  \/ \E c \in Callers : Detach(c)
  \/ \E c \in Callers : WriterStop(c)
  \/ \E c \in Callers : RecorderStopReturn(c)
  \/ \E message \in Messages : EncoderErrorEvent(message)
  \/ EncoderEndEvent

SpecRec == InitRec /\ [][NextRec]_vars

\* the event loop runs every timer and every continuation that is ready
FairSpecRec == SpecRec /\ WF_vars(RecorderStopSteps)

\* the recorder from its construction on
NextStart ==
  \/ \E dest \in Destinations : \E fault \in FaultsOf(dest) : RecorderStart(dest, fault)
  \/ \E timestamp \in EventTimestamps : FrameEvent(timestamp)
  \/ \E k \in 1..MaxPending : InsertResume(k) /\ UNCHANGED <<recorderVars, startVars, historyVars, tileVars, tabVars>>
  \/ \E c \in AppCallers : RecorderStopCall(c)
  \/ \E c \in Callers : Timeout(c)
  \/ \E c \in Callers : RaceDone(c)
  \/ \E c \in Callers : Detach(c)
  \/ \E c \in Callers : WriterStop(c)
  \/ \E c \in Callers : RecorderStopReturn(c)
  \/ \E message \in Messages : EncoderErrorEvent(message)
  \/ EncoderEndEvent

SpecStart == InitStart /\ [][NextStart]_vars

\* ------------------------------------- the collector's stack of sessions

\* _getCurrentSession: the last session of the stack (none: {})
getCurrentSession(stack) ==
  IF Len(stack) = 0 THEN {} ELSE {stack[Len(stack)]}

\* _endSession: this._sessionsStack.pop(), whichever page closed; the
\* _startScreenCast() that follows changes no field of the collector
endSession(stack) ==
  IF Len(stack) = 0 THEN stack ELSE SubSeq(stack, 1, Len(stack) - 1)

\* _startSession(page): no session when createCDPSession fails; otherwise the
\* session is pushed, and popped again by _endSession() when the screencast
\* does not start
startSession(stack, page, sessionCreated, castStarted) ==
  IF ~sessionCreated THEN stack
  ELSE IF castStarted THEN Append(stack, page)
  ELSE endSession(Append(stack, page))

\* pageVideoStreamCollector.start()
CollectorStart(followNewTab, sessionCreated, castStarted) ==
  /\ collectorState = "constructed"
  /\ pageState[MainPage] = "open"
  /\ collectorState' = "started"
  /\ sessionsStack' = startSession(sessionsStack, MainPage, sessionCreated, castStarted)
  /\ closeListeners' = closeListeners \cup {MainPage}
  /\ popupListener' = followNewTab
  /\ UNCHANGED <<pageState, lastClosed, lastRemoved>>

\* the recorded page opens a popup: the 'popup' listener runs
\* _registerTabListener(newPage)
PopupOpen(newPage, sessionCreated, castStarted) ==
  /\ collectorState = "started"
  /\ popupListener
  /\ pageState[MainPage] = "open"
  /\ pageState[newPage] = "unopened"
  /\ pageState' = [pageState EXCEPT ![newPage] = "open"]
  /\ sessionsStack' = startSession(sessionsStack, newPage, sessionCreated, castStarted)
  /\ closeListeners' = closeListeners \cup {newPage}
  /\ UNCHANGED <<collectorState, popupListener, lastClosed, lastRemoved>>

\* a page closes: its once('close') listener, when it has one, runs _endSession()
PageClose(page) ==
  /\ collectorState = "started"
  /\ pageState[page] = "open"
  /\ pageState' = [pageState EXCEPT ![page] = "closed"]
  /\ lastClosed' = {page}
  /\ IF page \in closeListeners
       THEN /\ sessionsStack' = endSession(sessionsStack)
            /\ lastRemoved' = getCurrentSession(sessionsStack)
            /\ closeListeners' = closeListeners \ {page}
       ELSE /\ lastRemoved' = {}
            /\ UNCHANGED <<sessionsStack, closeListeners>>
  /\ UNCHANGED <<collectorState, popupListener>>

\* the collector under the popup-open and page-close events of its pages
NextTabs ==
  \/ \E followNewTab \in BOOLEAN : \E sessionCreated \in BOOLEAN : \E castStarted \in BOOLEAN :
       /\ CollectorStart(followNewTab, sessionCreated, castStarted)
       /\ UNCHANGED <<writerVars, recorderVars, startVars, historyVars, tileVars>>
  \/ \E newPage \in Popups : \E sessionCreated \in BOOLEAN : \E castStarted \in BOOLEAN :
       /\ PopupOpen(newPage, sessionCreated, castStarted)
       /\ UNCHANGED <<writerVars, recorderVars, startVars, historyVars, tileVars>>
  \/ \E page \in Pages :
       /\ PageClose(page)
       /\ UNCHANGED <<writerVars, recorderVars, startVars, historyVars, tileVars>>

SpecTabs == Init /\ [][NextTabs]_vars

\* ---------------------------------------------------------------- claims

\* a sequence of frames (or of write() calls) is in non-decreasing timestamp order
Sorted(list) ==
  \A i \in 1..(Len(list) - 1) : list[i].timestamp <= list[i + 1].timestamp

StatusRank(s) ==
  CASE s = NOT_STARTED -> 0
    [] s = IN_PROGRESS -> 1
    [] s = COMPLETED -> 2

\* a step that completes an insert() call
InsertStep == Len(pending') < Len(pending) /\ nRejected' = nRejected
\* an insert() that found the buffer at capacity
HalfDrainStep == InsertStep /\ Len(screenCastFrames) = ScreenLimit
\* a stop() that drained
DrainAllStep == nDrainAll' > nDrainAll

\* C1, as stated: over a whole run (inserts in any order, half-drains, stop),
\* no write() call has a smaller timestamp than the write() call before it.
C1_WritesNonDecreasing == ~orderBroken

\* C1, amended: the write() calls of each single drain are in non-decreasing
\* timestamp order, and the write() calls of the whole run are as long as no
\* frame is inserted whose timestamp is smaller than one already written.
C1_OrderedUnlessLate ==
  /\ Sorted(lastBatch)
  /\ ~lateInsert => ~orderBroken

\* frames arrived out of order, a half-drain and then stop() wrote them, in order
C1_Witness ==
  /\ lastBatchKind = "all"
  /\ Len(lastBatch) >= 2
  /\ nWrites > Len(lastBatch)
  /\ reordered
  /\ ~lateInsert
  /\ ~orderBroken

\* C2: in every reachable state the buffer is sorted by timestamp, whatever the
\* order of the insert() calls and of their completions.
C2_BufferSorted == Sorted(screenCastFrames)

\* a frame went in front of a buffered one, and an insert() overtook an earlier one
C2_Witness ==
  /\ reordered
  /\ overtook
  /\ Len(screenCastFrames) >= 3
  /\ screenCastFrames[1].timestamp < screenCastFrames[Len(screenCastFrames)].timestamp

\* C3, as stated: once stop() has run its drain-all the buffer stays empty,
\* whatever insert() calls complete afterwards.
C3_EmptyAfterDrainAll == nDrainAll > 0 => screenCastFrames = <<>>

\* C4, as stated: over a whole run the drain-all and the end() of the sink
\* each happen at most once, however often stop() is called.
C4_DrainAllAndEndOnce == nDrainAll <= 1 /\ streamEnds <= 1

\* C5, as stated: _status never moves back in
\* NOT_STARTED < IN_PROGRESS < COMPLETED.
C5_StatusMonotonic == [][StatusRank(status') >= StatusRank(status)]_vars

\* C6: the frames written by the time the first stop() returns are exactly the
\* frames whose insert() completed before it, each once; until then every such
\* frame is either in the buffer or written once.
C6_WrittenExactlyOnce ==
  IF stopped
  THEN writtenByStop = insertedBeforeStop
  ELSE writtenByStop (+) framesOf(screenCastFrames) = insertedBeforeStop

\* stop() returned after more frames than the buffer holds, some out of order
C6_Witness ==
  /\ stopped
  /\ BagCardinality(insertedBeforeStop) > ScreenLimit
  /\ reordered

\* C7: the buffer never holds more than its capacity.
C7_BufferBounded == Len(screenCastFrames) <= ScreenLimit

\* the buffer is at capacity again after a half-drain
C7_Witness == Len(screenCastFrames) = ScreenLimit /\ lastBatchKind = "half"

\* C8: an insert() on a buffer at capacity writes exactly the floor(capacity/2)
\* buffered frames with the smallest timestamps (one half-drain) and leaves the
\* buffer sorted and below capacity; an insert() on a buffer below capacity
\* writes nothing and removes nothing.
C8_HalfDrainOnFull ==
  [][InsertStep =>
      IF Len(screenCastFrames) = ScreenLimit
      THEN LET half == ScreenLimit \div 2
               removed == SubSeq(screenCastFrames, 1, half)
               retained == SubSeq(screenCastFrames, half + 1, ScreenLimit)
           IN  /\ nWrites' = nWrites + half
               /\ Len(lastBatch') = half
               /\ \A i \in 1..half :
                    /\ lastBatch'[i].timestamp = removed[i].timestamp
                    /\ lastBatch'[i].blob = removed[i].blob
               /\ \A i \in 1..half : \A j \in 1..Len(retained) :
                    removed[i].timestamp <= retained[j].timestamp
               /\ Len(screenCastFrames') = ScreenLimit - half + 1
               /\ Len(screenCastFrames') < ScreenLimit
               /\ Sorted(screenCastFrames')
      ELSE /\ nWrites' = nWrites
           /\ lastBatch' = lastBatch
           /\ Len(screenCastFrames') = Len(screenCastFrames) + 1
  ]_vars

\* an insert() has half-drained the buffer
C8_Witness ==
  /\ lastBatchKind = "half"
  /\ Len(lastBatch) = ScreenLimit \div 2
  /\ Len(screenCastFrames) = ScreenLimit - ScreenLimit \div 2 + 1

\* C9: in every drain the duration written for a frame is the next frame's
\* timestamp minus its own, and for the last frame of the batch the end of the
\* batch minus its own, the end of the batch being the timestamp of the first
\* retained frame in a half-drain and the stop time in the final drain.
C9_Durations ==
  [][(HalfDrainStep \/ DrainAllStep) =>
      LET half == ScreenLimit \div 2
          batch == IF DrainAllStep THEN screenCastFrames
                   ELSE SubSeq(screenCastFrames, 1, half)
      IN  /\ Len(lastBatch') = Len(batch)
          /\ \A i \in 1..Len(batch) :
               lastBatch'[i].duration =
                 (IF i < Len(batch) THEN batch[i + 1].timestamp ELSE lastBatchEnd')
                 - batch[i].timestamp
          /\ ~DrainAllStep => lastBatchEnd' = screenCastFrames[half + 1].timestamp
  ]_vars

\* stop() wrote three frames with timestamps 1, 2, 3 up to the stop time 4, as in
\* the spec's [5, 7, 10] up to 12
C9_Witness ==
  /\ lastBatchKind = "all"
  /\ Len(lastBatch) = 3
  /\ lastBatch[1].timestamp < lastBatch[2].timestamp
  /\ lastBatch[2].timestamp < lastBatch[3].timestamp
  /\ lastBatchEnd > lastBatch[3].timestamp
  /\ \A i \in 1..3 : lastBatch[i].duration > 0

\* C10, as stated: no duration passed to write() is negative.
C10_NoNegativeDuration == \A i \in 1..Len(lastBatch) : lastBatch[i].duration >= 0

C12_AtLeastOneCopy == \A i \in 1..Len(lastBatch) : lastBatch[i].reps >= 1

\* a frame with the timestamp of the next one was written, with duration 0
C12_Witness ==
  \E i \in 1..Len(lastBatch) : lastBatch[i].duration = 0 /\ lastBatch[i].reps = 1

\* C18, as stated: at most ScreenLimit insert() calls followed by stop() make
\* one write() call per frame and then one end(), and in any run, whatever
\* insert() or stop() calls come later, no write() call follows the end().
C18_NoWriteAfterEnd ==
  /\ (/\ stopped
      /\ pending = <<>>
      /\ nInsertCalls = BagCardinality(insertedBeforeStop)
      /\ nInsertCalls <= ScreenLimit)
     => (nWrites = nInsertCalls /\ streamEnds = 1)
  /\ writesAfterEnd = 0

\* every timestamp occurs once among the frames inserted before stop()
DistinctTimestamps ==
  \A frame \in BagToSet(insertedBeforeStop) : CopiesIn(frame, insertedBeforeStop) = 1

\* the only drain of the run so far is the one of the first stop()
OnlyStopHasWritten ==
  /\ nDrainAll = 1
  /\ lastBatchKind = "all"
  /\ nWrites = Len(lastBatch)

\* C19: when at most ScreenLimit frames with pairwise distinct timestamps were
\* inserted, in any order, stop() writes exactly these frames in strictly
\* ascending timestamp order: one order, whatever the order of insertion.
C19_StopWritesAscending ==
  (OnlyStopHasWritten /\ DistinctTimestamps) =>
    /\ framesOf(lastBatch) = insertedBeforeStop
    /\ \A i \in 1..(Len(lastBatch) - 1) :
         lastBatch[i].timestamp < lastBatch[i + 1].timestamp

\* stop() wrote three frames with distinct timestamps that had arrived out of
\* order, one of them from an insert() that overtook an earlier call
C19_Witness ==
  /\ OnlyStopHasWritten
  /\ DistinctTimestamps
  /\ Len(lastBatch) = 3
  /\ reordered
  /\ overtook

\* C20: an insert() whose image step rejects changes neither the buffer, nor
\* the status, nor the stream, nor anything written: only that call is gone, so
\* every later insert() and stop() starts from the state it would have found
\* without the failed call; the frames written are still the completed ones.
C20_RejectedInsertDropped ==
  /\ [][nRejected' > nRejected =>
          /\ Len(pending') = Len(pending) - 1
          /\ UNCHANGED <<screenCastFrames, status, streamEnds, writesAfterEnd,
                         nWrites, nDrainAll, lastBatch, lastWritten, writtenByStop,
                         insertedBeforeStop>>]_vars
  /\ [](IF stopped
        THEN writtenByStop = insertedBeforeStop
        ELSE writtenByStop (+) framesOf(screenCastFrames) = insertedBeforeStop)

\* an insert() failed, other frames arrived out of order, more than the buffer
\* holds, and stop() has written them
C20_Witness ==
  /\ nRejected > 0
  /\ stopped
  /\ reordered
  /\ BagCardinality(insertedBeforeStop) > ScreenLimit
  /\ writtenByStop = insertedBeforeStop

\* C13, as stated: when the encoder reports an error before any write() call,
\* exactly one 'videoStreamWriterError' is emitted and the promise that stop()
\* returns resolves to false, on a file path and on a writable stream alike.
C13_OneErrorThenFalse ==
  (encoder = "error" /\ encoderError.nWrites = 0) =>
    /\ nWriterErrors = 1
    /\ writerPromise = "false"
    /\ \A c \in Callers : pc[c] = "returned" => isScreenCaptureEnded = "false"

\* C14, as stated: after an error of the encoder the stream of the writer is
\* eventually ended and the status becomes COMPLETED, by an automatic stop(),
\* whether or not the application calls stop().
C14_AutomaticStop ==
  (encoder = "error") ~> (streamEnds > 0 /\ status = COMPLETED)

\* C15, as stated: no 'videoStreamWriterError' is emitted for an encoder error
\* with the message 'pipe:0: End of file' that comes when the status is
\* COMPLETED.
C15_EndOfFileAfterStopSilent ==
  (encoderError.message = EndOfFile /\ encoderError.status = COMPLETED) =>
    nWriterErrors = 0

\* C16, as stated: one 'Page.screencastFrameAck' is sent for every
\* 'Page.screencastFrame' event, with or without a timestamp, before or after
\* the end of the streaming.
C16_OneAckPerEvent == nAcks = nFrameEvents

\* C17: every call of the recorder's stop() gets past the wait of the
\* collector and has the stream of the writer ended, also when no frame event
\* ever resolves _isFrameAckReceived.
C17_StopReachesWriter ==
  \A c \in Callers :
    (pc[c] # "idle") ~> (pc[c] \in {"awaitWriter", "returned"} /\ streamEnds > 0)

\* the application's stop() has ended the stream of the writer although the
\* collector has a session and no event has resolved _isFrameAckReceived
C17_Witness ==
  /\ pc["app"] = "awaitWriter"
  /\ pc["error"] = "idle"
  /\ hasSession
  /\ ~frameAckReceived
  /\ streamEnds = 1
  /\ status = COMPLETED

\* C21: a start() or startStream() given a faulty configuration (file format
\* not supported, stream not writable, no ffmpeg path) fails, and it leaves no
\* listener set up and no session started, and no frame is ever taken.
C21_FailFastOnConfigError ==
  configFault # NoFault =>
    /\ recorderState = "failed"
    /\ ~listenersSet
    /\ ~hasSession
    /\ nFrameEvents = 0
    /\ nInsertCalls = 0
    /\ encoder = "none"

\* start(savePath) has failed on a path whose extension is not supported
C21_Witness ==
  /\ recorderState = "failed"
  /\ configFault = "format"
  /\ ~listenersSet

\* C22, as stated: an insert() puts its frame after every buffered frame with
\* a timestamp smaller than or equal to its own, and before every frame with a
\* greater one: among frames of one timestamp the later insertion comes last.
C22_TiesAfterEqual ==
  [][InsertStep =>
      \E k \in 1..Len(pending) :
        /\ pending' = SubSeq(pending, 1, k - 1) \o SubSeq(pending, k + 1, Len(pending))
        /\ LET frame == pending[k]
               rest == IF Len(screenCastFrames) = ScreenLimit
                       THEN SubSeq(screenCastFrames, ScreenLimit \div 2 + 1, ScreenLimit)
                       ELSE screenCastFrames
           IN  \E i \in 0..Len(rest) :
                 /\ screenCastFrames' =
                      SubSeq(rest, 1, i) \o <<frame>> \o SubSeq(rest, i + 1, Len(rest))
                 /\ \A j \in 1..i : rest[j].timestamp <= frame.timestamp
                 /\ \A j \in (i + 1)..Len(rest) : rest[j].timestamp > frame.timestamp]_vars

\* C23, as stated: however the stop() calls of the recorder overlap, the wait
\* of the collector is entered at most once, the session is detached at most
\* once, and all the calls resolve to the same boolean.
C23_StopWorkOnce ==
  /\ nWaits <= 1
  /\ nDetachCalls <= 1
  /\ \A c, d \in Callers :
       (result[c] # "none" /\ result[d] # "none") => result[c] = result[d]

\* a step that handles a 'Page.screencastFrame' event
FrameEventStep == nFrameEvents' > nFrameEvents

\* C25: once _isStreamingEnded is set no frame event leads to a
\* 'pageScreenFrame' event, and until then every frame event with a timestamp
\* does, also while a stop() of the collector is in its wait.
C25_NoFrameAfterStreamingEnded ==
  [][FrameEventStep =>
      /\ isStreamingEnded => (nEmitted' = nEmitted /\ UNCHANGED <<pending, nInsertCalls>>)
      /\ (~isStreamingEnded /\ lastEventStamped') =>
           (nEmitted' = nEmitted + 1 /\ nInsertCalls' = nInsertCalls + 1)]_vars

\* a frame was emitted while stop() was waiting, and a later one was dropped
\* between the end of the streaming and the detach of the session
C25_Witness ==
  /\ isStreamingEnded
  /\ emittedWaiting
  /\ droppedEnded
  /\ lastEventStamped

\* the smallest timestamp among the frames inserted before stop()
FirstTimestamp ==
  CHOOSE t \in {frame.timestamp : frame \in BagToSet(insertedBeforeStop)} :
    \A frame \in BagToSet(insertedBeforeStop) : t <= frame.timestamp

\* every insert() so far completed before the one stop() that has drained
InsertsThenStop ==
  /\ stopped
  /\ nDrainAll = 1
  /\ pending = <<>>
  /\ nInsertCalls >= 1
  /\ nInsertCalls = BagCardinality(insertedBeforeStop)

\* C24, as stated: when insert() is called with strictly increasing
\* timestamps and stop() is given a time that is at least the last timestamp,
\* the durations of all the write() calls, of the half-drains and of the final
\* drain, add up to the stop time minus the first timestamp.
C24_DurationsTile ==
  InsertsThenStop => sumDurations = lastBatchEnd - FirstTimestamp

\* C26: for any sequence of popup-open and page-close events, the session
\* removed from the session stack on a close is the session of the page that
\* closed, and the top of the stack, on which screencasting is restarted,
\* belongs to a page that is still open.
C26_TopSessionOfOpenPage ==
  /\ lastRemoved \subseteq lastClosed
  /\ \A session \in getCurrentSession(sessionsStack) : pageState[session] = "open"

====
